---- MODULE Spec2Model ----
(***************************************************************************)
(* A model of webstd-ui/observable (src/unnamed/part_000): the             *)
(* ObservationIgnored registry, the Observable class transform, Binding    *)
(* and bindable, ignoringObservation and withObservationTracking, on top   *)
(* of the operations the module imports from @vue/reactivity.              *)
(***************************************************************************)
EXTENDS Integers, Sequences, FiniteSets, TLC

VARIABLES
    classState,   \* class name -> "none" | "members" | "defined" | "failed"
    members,      \* member decorators applied to the class being defined
    metaList,     \* class -> index in lists of its metadata's own ignore list (0: none)
    lists,        \* the ignore-list arrays, by identity
    objects,      \* the objects (instances), by identity
    refs,         \* the ref cells of the engine, by identity: their _value
    deps,         \* per ref cell, the effects subscribed to it, in order
    effects,      \* the effects created by withObservationTracking
    shouldTrack,  \* the engine's tracking flag
    trackStack,   \* the engine's stack of saved tracking flags
    activeEffect, \* the effect being run (0: none)
    onChangeCalls,\* per effect, how often its onChange closure was invoked
    applyCalls,   \* per effect, how often its apply closure was invoked
    reruns,       \* per effect, how often a dependency change re-ran it
    igDepth,      \* nesting depth of the running ignoringObservation calls
    igLog,        \* the ignoringObservation calls of the last operation
    readLog,      \* the property reads of the last operation
    hist          \* per object: the constructor's arguments, the hidden slots
                  \* construction left, and per property the value assigned
                  \* last and the number of assignments made from outside

vars == <<classState, members, metaList, lists, objects, refs, deps, effects,
          shouldTrack, trackStack, activeEffect, onChangeCalls, applyCalls,
          reruns, igDepth, igLog, readLog, hist>>

-----------------------------------------------------------------------------
(* Bounds *)

MaxObjects == 1
MaxIgnored == 1
MaxWrites == 2
MaxBindable == 2
MaxEffects == 1
MaxDepth == 2

-----------------------------------------------------------------------------
(* Values *)

Undefined == [t |-> "undefined"]
Null == [t |-> "null"]
Num(n) == [t |-> "number", n |-> n]
Str(s) == [t |-> "string", s |-> s]
Obj(id) == [t |-> "object", id |-> id]
Proxy(id) == [t |-> "proxy", id |-> id]
RefCell(id) == [t |-> "ref", id |-> id]

\* typeof v
TypeOf(v) ==
    CASE v.t = "undefined" -> "undefined"
      [] v.t = "number" -> "number"
      [] v.t = "string" -> "string"
      [] OTHER -> "object"

\* the values a constructor stores in a field
InitValues == {Num(1), Str("undefined"), Undefined, Null, Obj(1)}
\* the values later assigned to a property
WriteValues == {Num(1), Num(2), Obj(2)}

\* the scalar values (everything that is not an object)
IsScalar(v) == v.t \in {"undefined", "null", "number", "string"}

-----------------------------------------------------------------------------
(* The operations imported from @vue/reactivity *)

isRef(v) == v.t = "ref"

\* reactive(target): a non-object is returned as it is, a proxy is itself
reactive(v) == IF v.t = "object" THEN Proxy(v.id) ELSE v

toRaw(v) == IF v.t = "proxy" THEN Obj(v.id) ELSE v

\* ref(value): a new cell holding toReactive(value), with no subscribers
ref(st, v) ==
    [st EXCEPT !.refs = Append(@, reactive(v)), !.deps = Append(@, <<>>)]

pauseTracking(st) ==
    [st EXCEPT !.trackStack = Append(@, st.shouldTrack), !.shouldTrack = FALSE]

\* resetTracking(): the flag saved last is restored (true on an empty stack)
resetTracking(st) ==
    IF st.trackStack = <<>>
    THEN [st EXCEPT !.shouldTrack = TRUE]
    ELSE [st EXCEPT !.shouldTrack = st.trackStack[Len(st.trackStack)],
                    !.trackStack = SubSeq(@, 1, Len(@) - 1)]

Remove(s, e) == SelectSeq(s, LAMBDA x : x # e)

Contains(s, e) == \E k \in 1..Len(s) : s[k] = e

SeqToSet(s) == {s[k] : k \in 1..Len(s)}

\* track: a read of cell r subscribes the running effect while tracking is on
trackRefValue(st, r) ==
    IF st.shouldTrack /\ st.activeEffect # 0 /\ ~Contains(st.deps[r], st.activeEffect)
    THEN [st EXCEPT !.deps[r] = Append(@, st.activeEffect)]
    ELSE st

-----------------------------------------------------------------------------
(* The program state as one record, threaded through the operations *)

World ==
    [metaList |-> metaList, lists |-> lists, objects |-> objects, refs |-> refs,
     deps |-> deps, effects |-> effects, shouldTrack |-> shouldTrack,
     trackStack |-> trackStack, activeEffect |-> activeEffect,
     onChangeCalls |-> onChangeCalls, applyCalls |-> applyCalls,
     reruns |-> reruns, igDepth |-> igDepth, igLog |-> <<>>, readLog |-> <<>>]

Commit(st) ==
    /\ metaList' = st.metaList
    /\ lists' = st.lists
    /\ objects' = st.objects
    /\ refs' = st.refs
    /\ deps' = st.deps
    /\ effects' = st.effects
    /\ shouldTrack' = st.shouldTrack
    /\ trackStack' = st.trackStack
    /\ activeEffect' = st.activeEffect
    /\ onChangeCalls' = st.onChangeCalls
    /\ applyCalls' = st.applyCalls
    /\ reruns' = st.reruns
    /\ igDepth' = st.igDepth
    /\ igLog' = st.igLog
    /\ readLog' = st.readLog

-----------------------------------------------------------------------------
(* Closures: a closure is a sequence of steps, each a property read       *)
(* obj[prop] or a nested call ignoringObservation(fn)                     *)

ReadOp(i, p) == [op |-> "read", obj |-> i, prop |-> p]
IgnoringOp(fn) == [op |-> "ignoring", fn |-> fn]

\* the accessor's get() of the Observed constructor, as run inside a closure:
\* the cell is read from the hidden slot; a ref cell's .value is a tracked read
AccessorGet(st, i, slot) ==
    LET instance == st.objects[i].slots[slot].value
    IN  IF isRef(instance) THEN trackRefValue(st, instance.id) ELSE st

\* what obj[p] evaluates to
GetValue(st, i, p) ==
    LET o == st.objects[i]
    IN  IF p \notin DOMAIN o.desc THEN Undefined
        ELSE IF o.desc[p].kind = "data" THEN o.desc[p].value
        ELSE LET instance == o.slots[o.desc[p].slot].value
             IN  IF isRef(instance) THEN st.refs[instance.id] ELSE instance

\* the read obj[p] inside a closure
ReadProp(st, i, p) ==
    LET o == st.objects[i]
        s1 == IF p \in DOMAIN o.desc /\ o.desc[p].kind = "accessor"
              THEN AccessorGet(st, i, o.desc[p].slot)
              ELSE st
    IN  [s1 EXCEPT !.readLog = Append(@, [obj |-> i, prop |-> p,
                                           depth |-> st.igDepth,
                                           shouldTrack |-> st.shouldTrack])]

RECURSIVE Call(_, _)
RECURSIVE ignoringObservation(_, _)

Step(st, o) ==
    IF o.op = "read" THEN ReadProp(st, o.obj, o.prop)
    ELSE ignoringObservation(st, o.fn)

\* fn(): the steps of the closure in order
Call(st, fn) ==
    IF fn = <<>> THEN st ELSE Call(Step(st, Head(fn)), Tail(fn))

\* ignoringObservation without its pauseTracking() call
ignoringObservation_NoPause(st, fn) ==
    LET s1 == [st EXCEPT !.igDepth = @ + 1]
        s2 == Call(s1, fn)
        s3 == resetTracking(s2)
    IN  [s3 EXCEPT !.igDepth = st.igDepth,
                   !.igLog = Append(@, [depth |-> st.igDepth + 1,
                                        before |-> st.shouldTrack,
                                        after |-> s3.shouldTrack])]

\* ignoringObservation without its resetTracking() call
ignoringObservation_NoReset(st, fn) ==
    LET s1 == pauseTracking([st EXCEPT !.igDepth = @ + 1])
        s2 == Call(s1, fn)
    IN  [s2 EXCEPT !.igDepth = st.igDepth,
                   !.igLog = Append(@, [depth |-> st.igDepth + 1,
                                        before |-> st.shouldTrack,
                                        after |-> s2.shouldTrack])]

\* ignoringObservation(nonReactiveReadsFunc)
ignoringObservation(st, fn) ==
    LET s1 == pauseTracking([st EXCEPT !.igDepth = @ + 1])
        s2 == Call(s1, fn)
        s3 == resetTracking(s2)
    IN  [s3 EXCEPT !.igDepth = st.igDepth,
                   !.igLog = Append(@, [depth |-> st.igDepth + 1,
                                        before |-> st.shouldTrack,
                                        after |-> s3.shouldTrack])]

\* the function withObservationTracking hands to effect()
TrackedFn(st, e) ==
    LET eff == st.effects[e]
        s1 == IF eff.hasOnChange
              THEN ignoringObservation([st EXCEPT !.onChangeCalls[e] = @ + 1],
                                       eff.onChange)
              ELSE st
    IN  Call([s1 EXCEPT !.applyCalls[e] = @ + 1], eff.apply)

\* ReactiveEffect.run(): the effect's subscriptions are dropped and collected
\* again by the run, with tracking on; the flag and the running effect are
\* restored afterwards
RunEffect(st, e) ==
    LET s0 == [st EXCEPT !.activeEffect = e, !.shouldTrack = TRUE,
                         !.deps = [r \in DOMAIN st.deps |-> Remove(st.deps[r], e)]]
        s1 == TrackedFn(s0, e)
    IN  [s1 EXCEPT !.activeEffect = st.activeEffect,
                   !.shouldTrack = st.shouldTrack]

\* triggerEffects(dep): the subscribers run one after the other, synchronously
RECURSIVE triggerEffects(_, _)
triggerEffects(st, subscribers) ==
    IF subscribers = <<>> THEN st
    ELSE LET e == Head(subscribers)
             s1 == IF e # st.activeEffect
                   THEN RunEffect([st EXCEPT !.reruns[e] = @ + 1], e)
                   ELSE st
         IN  triggerEffects(s1, Tail(subscribers))

\* RefImpl's set value(newVal): nothing happens unless the value changed
RefSetValue(st, r, v) ==
    IF toRaw(v) # toRaw(st.refs[r])
    THEN triggerEffects([st EXCEPT !.refs[r] = reactive(toRaw(v))], st.deps[r])
    ELSE st

\* effect(fn): the effect is created and run at once
effect(st, eff) ==
    LET s0 == [st EXCEPT !.effects = Append(@, eff),
                         !.onChangeCalls = Append(@, 0),
                         !.applyCalls = Append(@, 0),
                         !.reruns = Append(@, 0)]
    IN  RunEffect(s0, Len(s0.effects))

withObservationTracking(st, apply, onChange, hasOnChange) ==
    effect(st, [apply |-> apply, onChange |-> onChange, hasOnChange |-> hasOnChange])

-----------------------------------------------------------------------------
(* Objects: own string-keyed properties with their descriptors, and the   *)
(* symbol-keyed hidden slots                                              *)

DataDesc(v) == [kind |-> "data", value |-> v]
AccessorDesc(slot) == [kind |-> "accessor", slot |-> slot]

EmptyObject(c) == [cls |-> c, keys |-> <<>>, desc |-> <<>>, slots |-> <<>>]

\* the accessor's set(v) of the Observed constructor
AccessorSet(st, i, slot, v) ==
    LET instance == st.objects[i].slots[slot].value
    IN  IF isRef(instance)
        THEN RefSetValue(st, instance.id, v)
        ELSE [st EXCEPT !.objects[i].slots[slot].value = reactive(v)]

\* the assignment obj[p] = v
Put(st, i, p, v) ==
    LET o == st.objects[i]
    IN  IF p \notin DOMAIN o.desc
        THEN [st EXCEPT !.objects[i].keys = Append(@, p),
                        !.objects[i].desc = @ @@ (p :> DataDesc(v))]
        ELSE IF o.desc[p].kind = "data"
        THEN [st EXCEPT !.objects[i].desc[p] = DataDesc(v)]
        ELSE AccessorSet(st, i, o.desc[p].slot, v)


-----------------------------------------------------------------------------
(* Classes, their metadata objects and the ignore registry                *)

\* the program's classes, each decorated with Observable: B and C extend A
Classes == {"A", "B", "C"}
Parent == [c \in Classes |-> IF c = "A" THEN "" ELSE "A"]

\* the fields the class's own constructor assigns
CtorFields(c) == IF c = "A" THEN <<"x">> ELSE <<"y">>

PropNames == {"x", "y"}

\* the name of a decorated member: a string or a symbol
StringName(n) == [type |-> "string", name |-> n]
SymbolName == [type |-> "symbol", name |-> "sym"]
MemberNames == {StringName(n) : n \in PropNames} \cup {SymbolName}

\* the classes from the root down to c
ChainOf(c) == IF Parent[c] = "" THEN <<c>> ELSE <<Parent[c], c>>

\* metadata[ObservationIgnoredSymbol], looked up along the prototype chain of
\* the metadata objects (a subclass's metadata inherits from its superclass's)
LookupList(st, c) ==
    IF st.metaList[c] # 0 THEN st.metaList[c]
    ELSE IF Parent[c] = "" THEN 0
    ELSE st.metaList[Parent[c]]

\* metadata[ObservationIgnoredSymbol] ??= []
EnsureList(st, c) ==
    IF LookupList(st, c) # 0 THEN st
    ELSE [st EXCEPT !.lists = Append(@, <<>>), !.metaList[c] = Len(st.lists) + 1]

\* the class's ignore list, as the Observed constructor and the decorator see it
IgnoredProps(st, c) ==
    IF LookupList(st, c) = 0 THEN <<>> ELSE st.lists[LookupList(st, c)]

\* ObservationIgnored past its symbol check: ignoredProps.push(context.name)
PushIgnored(st, c, n) ==
    LET s1 == EnsureList(st, c)
    IN  [s1 EXCEPT !.lists[LookupList(s1, c)] = Append(@, n)]

-----------------------------------------------------------------------------
(* The Observed constructor                                               *)

\* Object.getOwnPropertyNames(obj): index keys first, then creation order
IndexKeys == <<"0", "1", "2", "3", "4", "5", "6", "7">>
IsIndexKey(k) == Contains(IndexKeys, k)
OwnPropertyNames(o) ==
    SelectSeq(IndexKeys, LAMBDA k : k \in DOMAIN o.desc)
        \o SelectSeq(o.keys, LAMBDA k : ~IsIndexKey(k))

\* initialValue.value of Object.getOwnPropertyDescriptor(this, prop)
DescriptorValue(d) == IF d.kind = "data" THEN d.value ELSE Undefined

\* the test that picks reactive() over ref()
WrapsReactive(v) == TypeOf(v) = "object" \/ v = Str("undefined")

\* one turn of the loop over the own properties: the hidden slot and the
\* accessor pair of prop
WrapProp(st, i, prop) ==
    LET value == DescriptorValue(st.objects[i].desc[prop])
        s1 == IF WrapsReactive(value) THEN st ELSE ref(st, value)
        cell == IF WrapsReactive(value) THEN reactive(value)
                ELSE RefCell(Len(s1.refs))
        backingRef == Len(st.objects[i].slots) + 1
    IN  [s1 EXCEPT
            !.objects[i].slots = Append(@, [description |-> prop, value |-> cell]),
            !.objects[i].desc[prop] = AccessorDesc(backingRef)]

RECURSIVE WrapAll(_, _, _, _)
WrapAll(st, i, properties, ignoredProps) ==
    IF properties = <<>> THEN st
    ELSE LET prop == Head(properties)
             s1 == IF Contains(ignoredProps, prop) THEN st
                   ELSE WrapProp(st, i, prop)
         IN  WrapAll(s1, i, Tail(properties), ignoredProps)

\* the body of Observed's constructor after super(...args): the metadata is
\* that of the instance's own (most derived) class
ObservedPass(st, i) ==
    LET s1 == EnsureList(st, st.objects[i].cls)
    IN  WrapAll(s1, i, OwnPropertyNames(s1.objects[i]),
                IgnoredProps(s1, s1.objects[i].cls))

\* the original constructor of class c: this.f = args[f] for its fields
RECURSIVE AssignFields(_, _, _, _)
AssignFields(st, i, fields, args) ==
    IF fields = <<>> THEN st
    ELSE AssignFields(Put(st, i, Head(fields), args[Head(fields)]), i,
                      Tail(fields), args)

\* the constructors from the root class down: each class's own constructor,
\* then the pass of its Observed subclass
RECURSIVE ConstructChain(_, _, _, _)
ConstructChain(st, i, chain, args) ==
    IF chain = <<>> THEN st
    ELSE ConstructChain(
             ObservedPass(AssignFields(st, i, CtorFields(Head(chain)), args), i),
             i, Tail(chain), args)

\* new c(args)
Construct(st, c, args) ==
    LET i == Len(st.objects) + 1
    IN  ConstructChain([st EXCEPT !.objects = Append(@, EmptyObject(c))],
                       i, ChainOf(c), args)

AllFields(c) ==
    {f \in PropNames :
        \E k \in 1..Len(ChainOf(c)) : Contains(CtorFields(ChainOf(c)[k]), f)}

-----------------------------------------------------------------------------
(* The operations of a program that declares classes, constructs          *)
(* instances and assigns to their properties                              *)

Defining == \E c \in Classes : classState[c] = "members"

UnchangedEngine ==
    UNCHANGED <<deps, effects, shouldTrack, trackStack, activeEffect,
                onChangeCalls, applyCalls, reruns, igDepth, igLog, readLog>>

\* the evaluation of a class declaration begins: its metadata object exists
BeginClass(c) ==
    /\ ~Defining
    /\ classState[c] = "none"
    /\ Parent[c] # "" => classState[Parent[c]] = "defined"
    /\ classState' = [classState EXCEPT ![c] = "members"]
    /\ members' = 0
    /\ UNCHANGED <<metaList, lists, objects, refs, hist>>
    /\ UnchangedEngine

\* the decorator on a member named n of the class being defined
ObservationIgnored(c, n) ==
    /\ classState[c] = "members"
    /\ members < MaxIgnored
    /\ members' = members + 1
    /\ IF n.type = "symbol"
       THEN /\ classState' = [classState EXCEPT ![c] = "failed"]
            /\ UNCHANGED <<metaList, lists, objects, refs>>
            /\ UnchangedEngine
       ELSE /\ Commit(PushIgnored(World, c, n.name))
            /\ UNCHANGED classState
    /\ UNCHANGED hist

\* the class decorator, applied with context.kind = kind
Observable(c, kind) ==
    /\ classState[c] = "members"
    /\ classState' = [classState EXCEPT ![c] = IF kind # "class" THEN "failed"
                                                ELSE "defined"]
    /\ UNCHANGED <<members, metaList, lists, objects, refs, hist>>
    /\ UnchangedEngine

\* what is recorded of a construction that ended in state st
NewHist(args, st) ==
    [init |-> args, last |-> args, slots |-> st.objects[Len(st.objects)].slots,
     writes |-> [p \in PropNames |-> 0], via |-> [p \in PropNames |-> "new"],
     bindables |-> 0, named |-> {}]

\* new c(args)
New(c, args) ==
    /\ ~Defining
    /\ classState[c] = "defined"
    /\ Len(objects) < MaxObjects
    /\ Commit(Construct(World, c, args))
    /\ hist' = Append(hist, NewHist(args, Construct(World, c, args)))
    /\ UNCHANGED <<classState, members>>

RECURSIVE Sum(_)
Sum(s) == IF s = <<>> THEN 0 ELSE Head(s) + Sum(Tail(s))

TotalWrites ==
    Sum([i \in 1..Len(hist) |-> hist[i].writes["x"] + hist[i].writes["y"]])

\* obj[p] = v, from outside any tracked function
Assign(i, p, v) ==
    /\ ~Defining
    /\ i \in 1..Len(objects)
    /\ p \in DOMAIN objects[i].desc
    /\ TotalWrites < MaxWrites
    /\ hist' = [hist EXCEPT ![i].writes[p] = @ + 1, ![i].last[p] = v,
                          ![i].via[p] = "assign"]
    /\ Commit(Put(World, i, p, v))
    /\ UNCHANGED <<classState, members>>

Init ==
    /\ classState = [c \in Classes |-> "none"]
    /\ members = 0
    /\ metaList = [c \in Classes |-> 0]
    /\ lists = <<>>
    /\ objects = <<>>
    /\ refs = <<>>
    /\ deps = <<>>
    /\ effects = <<>>
    /\ shouldTrack = TRUE
    /\ trackStack = <<>>
    /\ activeEffect = 0
    /\ onChangeCalls = <<>>
    /\ applyCalls = <<>>
    /\ reruns = <<>>
    /\ igDepth = 0
    /\ igLog = <<>>
    /\ readLog = <<>>
    /\ hist = <<>>

Next ==
    \/ \E c \in Classes : BeginClass(c)
    \/ \E c \in Classes, n \in MemberNames : ObservationIgnored(c, n)
    \/ \E c \in Classes, kind \in {"class", "field"} : Observable(c, kind)
    \/ \E c \in Classes : \E args \in [AllFields(c) -> InitValues] : New(c, args)
    \/ \E i \in 1..Len(objects), p \in PropNames, v \in WriteValues : Assign(i, p, v)

Spec == Init /\ [][Next]_vars



-----------------------------------------------------------------------------
(* Binding and bindable                                                   *)

\* new Binding({get, set}) of bindable: the closures hold observable and key
Binding(i, key) == [t |-> "binding", obj |-> i, key |-> key]

\* the object literal { [name]: value }
Literal(name, value) == [t |-> "literal", name |-> name, value |-> value]

\* `$${key}`
Dollar(key) == "$" \o key

\* the get() of a Binding made by bindable
BindingGet(st, b) == GetValue(st, b.obj, b.key)

\* the set(v) of a Binding made by bindable
BindingSet(st, b, v) == Put(st, b.obj, b.key, v)

\* Object.assign(target, source) for an array source: its elements are
\* assigned to the target under their indices
RECURSIVE AssignArray(_, _, _, _)
AssignArray(st, i, array, k) ==
    IF k > Len(array) THEN st
    ELSE AssignArray(Put(st, i, IndexKeys[k], array[k]), i, array, k + 1)

bindable(st, i) ==
    LET names == OwnPropertyNames(st.objects[i])
        array == [k \in 1..Len(names) |->
                     Literal(Dollar(names[k]), Binding(i, names[k]))]
    IN  AssignArray(st, i, array, 1)

\* an object literal { x: args.x, y: args.y }
PlainObject(st, args) ==
    AssignFields([st EXCEPT !.objects = Append(@, EmptyObject(""))],
                 Len(st.objects) + 1, <<"x", "y">>, args)

\* the bindings reachable from object i: those held by the literals that
\* are the values of its own properties
BindingsOf(i) ==
    {objects[i].desc[k].value.value :
        k \in {k \in DOMAIN objects[i].desc :
                  /\ objects[i].desc[k].kind = "data"
                  /\ objects[i].desc[k].value.t = "literal"}}

\* bindable(objects[i])
Bindable(i) ==
    /\ i \in 1..Len(objects)
    /\ hist[i].bindables < MaxBindable
    /\ Commit(bindable(World, i))
    /\ hist' = [hist EXCEPT ![i].bindables = @ + 1,
                            ![i].named = SeqToSet(OwnPropertyNames(objects[i]))]
    /\ UNCHANGED <<classState, members>>

\* b.set(v) on a binding b that bindable made for object i
CallBindingSet(i, b, v) ==
    /\ i \in 1..Len(objects)
    /\ b \in BindingsOf(i)
    /\ b.key \in PropNames
    /\ TotalWrites < MaxWrites
    /\ Commit(BindingSet(World, b, v))
    /\ hist' = [hist EXCEPT ![b.obj].writes[b.key] = @ + 1,
                            ![b.obj].last[b.key] = v,
                            ![b.obj].via[b.key] = "binding"]
    /\ UNCHANGED <<classState, members>>

\* the state in which the operations of st have all returned
Settled(st) ==
    /\ metaList = st.metaList
    /\ lists = st.lists
    /\ objects = st.objects
    /\ refs = st.refs
    /\ deps = st.deps
    /\ effects = st.effects
    /\ shouldTrack = st.shouldTrack
    /\ trackStack = st.trackStack
    /\ activeEffect = st.activeEffect
    /\ onChangeCalls = st.onChangeCalls
    /\ applyCalls = st.applyCalls
    /\ reruns = st.reruns
    /\ igDepth = st.igDepth
    /\ igLog = st.igLog
    /\ readLog = st.readLog

\* the program before it has declared or constructed anything
Blank ==
    [metaList |-> [c \in Classes |-> 0], lists |-> <<>>, objects |-> <<>>,
     refs |-> <<>>, deps |-> <<>>, effects |-> <<>>, shouldTrack |-> TRUE,
     trackStack |-> <<>>, activeEffect |-> 0, onChangeCalls |-> <<>>,
     applyCalls |-> <<>>, reruns |-> <<>>, igDepth |-> 0, igLog |-> <<>>,
     readLog |-> <<>>]

\* class A is declared, and there is one object: an object literal with the
\* properties x and y, or an instance of A
InitBind ==
    /\ classState = [c \in Classes |-> IF c = "A" THEN "defined" ELSE "none"]
    /\ members = 0
    /\ \/ \E args \in [PropNames -> InitValues] :
              /\ Settled(PlainObject(Blank, args))
              /\ hist = <<NewHist(args, PlainObject(Blank, args))>>
       \/ \E args \in [AllFields("A") -> InitValues] :
              /\ Settled(Construct(Blank, "A", args))
              /\ hist = <<NewHist(args, Construct(Blank, "A", args))>>

NextBind ==
    \/ \E i \in 1..Len(objects) : Bindable(i)
    \/ \E i \in 1..Len(objects) : \E b \in BindingsOf(i), v \in WriteValues :
           CallBindingSet(i, b, v)
    \/ \E i \in 1..Len(objects), p \in PropNames, v \in WriteValues : Assign(i, p, v)

SpecBind == InitBind /\ [][NextBind]_vars

\* C1: after bindable(obj), each property p that obj had at the call has a
\* sibling own property $p holding a Binding whose get() is the current obj.p,
\* also after a direct write to p; after $p.set(Y), obj.p and $p.get() are Y
C1_BindingPassThrough ==
    \A i \in 1..Len(objects) : \A p \in hist[i].named :
        /\ Dollar(p) \in DOMAIN objects[i].desc
        /\ objects[i].desc[Dollar(p)].kind = "data"
        /\ objects[i].desc[Dollar(p)].value.t = "binding"
        /\ BindingGet(World, objects[i].desc[Dollar(p)].value) = GetValue(World, i, p)
        /\ (p \in PropNames /\ hist[i].via[p] = "binding") =>
               GetValue(World, i, p) = hist[i].last[p]


-----------------------------------------------------------------------------
(* Tracking: withObservationTracking and ignoringObservation              *)

\* the values the tracked objects are constructed with
TrackValues == {Num(1), Obj(1)}

\* the closures that read x of at most one of the two objects
Reads == {<<>>} \cup {<<ReadOp(i, "x")>> : i \in 1..2}

\* the onChange closures: a read, or a read after a call of its own to
\* ignoringObservation
OnChangeFns ==
    Reads \cup {<<IgnoringOp(<<>>)>> \o r : r \in Reads \ {<<>>}}

\* the closures with ignoringObservation calls nested up to d deep, each
\* call followed by a read or by nothing
RECURSIVE Fns(_)
Fns(d) ==
    IF d = 0 THEN Reads
    ELSE Fns(d - 1) \cup {<<IgnoringOp(f)>> \o r : f \in Fns(d - 1), r \in Reads}

\* whether closure fn reads x of object i
RECURSIVE ReadsObject(_, _)
ReadsObject(fn, i) ==
    \E k \in 1..Len(fn) :
        IF fn[k].op = "read" THEN fn[k].obj = i ELSE ReadsObject(fn[k].fn, i)

\* withObservationTracking(apply, onChange), or withObservationTracking(apply)
Track(apply, onChange, hasOnChange) ==
    /\ Len(effects) < MaxEffects
    /\ Commit(withObservationTracking(World, apply, onChange, hasOnChange))
    /\ UNCHANGED <<classState, members, hist>>

\* ignoringObservation(fn), called from outside any tracked function
CallIgnoring(fn) ==
    /\ Commit(ignoringObservation(World, fn))
    /\ UNCHANGED <<classState, members, hist>>

\* class A is declared and two instances of it are constructed
InitTrack ==
    /\ classState = [c \in Classes |-> IF c = "A" THEN "defined" ELSE "none"]
    /\ members = 0
    /\ \E a1, a2 \in [AllFields("A") -> TrackValues] :
           LET s1 == Construct(Blank, "A", a1)
               s2 == Construct(s1, "A", a2)
           IN  /\ Settled(s2)
               /\ hist = <<NewHist(a1, s1), NewHist(a2, s2)>>

NextTrack ==
    \/ \E apply \in Reads, onChange \in OnChangeFns : Track(apply, onChange, TRUE)
    \/ \E apply \in Reads : Track(apply, <<>>, FALSE)
    \/ \E i \in 1..Len(objects), p \in PropNames, v \in WriteValues : Assign(i, p, v)

SpecTrack == InitTrack /\ [][NextTrack]_vars

\* class A is declared and two instances of it are constructed
InitIgnoring ==
    /\ classState = [c \in Classes |-> IF c = "A" THEN "defined" ELSE "none"]
    /\ members = 0
    /\ \E a1, a2 \in [AllFields("A") -> InitValues] :
           LET s1 == Construct(Blank, "A", a1)
               s2 == Construct(s1, "A", a2)
           IN  /\ Settled(s2)
               /\ hist = <<NewHist(a1, s1), NewHist(a2, s2)>>

NextIgnoring == \E fn \in Fns(MaxDepth) : CallIgnoring(fn)

SpecIgnoring == InitIgnoring /\ [][NextIgnoring]_vars

-----------------------------------------------------------------------------
(* Properties of tracking                                                 *)

Effects == 1..Len(effects)

\* C3: an assignment, from outside, of a different value to a property that
\* apply reads re-runs the tracked function and invokes onChange, once
C3_RerunPerAssignment ==
    [][\A i \in 1..Len(objects), v \in WriteValues :
          (Assign(i, "x", v) /\ toRaw(v) # toRaw(GetValue(World, i, "x"))) =>
              \A e \in Effects :
                  (effects[e].hasOnChange /\ ReadsObject(effects[e].apply, i)) =>
                      /\ applyCalls'[e] = applyCalls[e] + 1
                      /\ onChangeCalls'[e] = onChangeCalls[e] + 1
      ]_vars

\* C4: no write to a property that only onChange reads invokes apply or
\* onChange again
C4_OnChangeReadsUntracked ==
    [][\A i \in 1..Len(objects), v \in WriteValues :
          Assign(i, "x", v) =>
              \A e \in Effects :
                  (/\ effects[e].hasOnChange
                   /\ ReadsObject(effects[e].onChange, i)
                   /\ ~ReadsObject(effects[e].apply, i)) =>
                      /\ applyCalls'[e] = applyCalls[e]
                      /\ onChangeCalls'[e] = onChangeCalls[e]
      ]_vars

\* an effect whose onChange alone reads x of an object with a ref cell, and
\* that x assigned a different value
C4_Witness ==
    \E e \in Effects, i \in 1..Len(objects) :
        /\ effects[e].hasOnChange
        /\ ReadsObject(effects[e].onChange, i)
        /\ ~ReadsObject(effects[e].apply, i)
        /\ isRef(objects[i].slots[1].value)
        /\ hist[i].writes["x"] > 0
        /\ toRaw(hist[i].last["x"]) # toRaw(hist[i].init["x"])
        /\ applyCalls[e] = 1

\* C5: onChange is invoked as often as a dependency change re-ran apply, so
\* not for the first run
C5_OnChangeOnlyOnRerun ==
    \A e \in Effects :
        effects[e].hasOnChange => onChangeCalls[e] = reruns[e]

\* C7: when ignoringObservation returns, tracking is enabled
C7_AlwaysEnabled ==
    \A k \in 1..Len(igLog) : igLog[k].after = TRUE

\* C7, amended: fn runs with tracking paused, and when ignoringObservation
\* returns, tracking is as it was when it was called
C7_Restored ==
    /\ \A k \in 1..Len(igLog) : igLog[k].after = igLog[k].before
    /\ \A k \in 1..Len(readLog) :
           readLog[k].depth > 0 => ~readLog[k].shouldTrack

\* a call nested in another call has returned, and fn has read a property
C7_Witness ==
    /\ \E k \in 1..Len(igLog) :
           igLog[k].depth = 2 /\ ~igLog[k].before /\ ~igLog[k].after
    /\ \E k \in 1..Len(igLog) :
           igLog[k].depth = 1 /\ igLog[k].before /\ igLog[k].after
    /\ \E k \in 1..Len(readLog) : readLog[k].depth = 1

-----------------------------------------------------------------------------
(* Properties of the registry and the transform                           *)

\* p is in the ignore list of the class of object i
Ignored(i, p) == Contains(IgnoredProps(World, objects[i].cls), p)

\* the hidden slots of object i made for property p
SlotsOf(i, p) ==
    {k \in 1..Len(objects[i].slots) : objects[i].slots[k].description = p}

Instances == {i \in 1..Len(objects) : objects[i].cls \in Classes}

\* C2: a non-ignored scalar property of a decorated instance reads as the
\* value the constructor gave it, and after a write of a scalar as the value
\* written
C2_RoundTrip ==
    \A i \in Instances : \A p \in DOMAIN objects[i].desc \cap PropNames :
        (~Ignored(i, p) /\ IsScalar(hist[i].init[p]) /\ IsScalar(hist[i].last[p]))
            => GetValue(World, i, p) = hist[i].last[p]

\* C6: a property in the class's ignore list is a plain data property with
\* no hidden slot, and holds the value assigned last
C6_IgnoredIsPlain ==
    \A i \in Instances : \A p \in DOMAIN objects[i].desc \cap PropNames :
        Ignored(i, p) =>
            /\ objects[i].desc[p] = DataDesc(hist[i].last[p])
            /\ SlotsOf(i, p) = {}

\* C8: marking a member ignored on class c changes the ignore list of no
\* other declared class (its superclass, its siblings), so that a property
\* marked only on a subclass is not ignored in the superclass
C8_PerClass ==
    [][\A c \in Classes, n \in PropNames :
          ObservationIgnored(c, StringName(n)) =>
              \A d \in Classes \ {c} :
                  classState[d] # "none" =>
                      IgnoredProps(World', d) = IgnoredProps(World, d)
      ]_vars

\* C9: the backing cell the first pass over a property makes is a
\* reactive-object wrapper when the value at construction is an object or
\* undefined, and a ref cell for any other value
C9_CellKind ==
    \A i \in Instances : \A p \in DOMAIN objects[i].desc \cap PropNames :
        \A k \in SlotsOf(i, p) :
            (\A j \in SlotsOf(i, p) : k <= j) =>
                LET v == hist[i].init[p]
                    cell == hist[i].slots[k].value
                IN  IF TypeOf(v) = "object" \/ v = Undefined
                    THEN ~isRef(cell) /\ cell = reactive(v)
                    ELSE isRef(cell)

\* C10: every non-ignored own property has exactly one hidden slot, and a
\* slot that held a ref cell after construction holds that cell for good
C10_OneCell ==
    \A i \in Instances : \A p \in DOMAIN objects[i].desc \cap PropNames :
        ~Ignored(i, p) =>
            /\ Cardinality(SlotsOf(i, p)) = 1
            /\ \A k \in SlotsOf(i, p) :
                   isRef(hist[i].slots[k].value) =>
                       objects[i].slots[k].value = hist[i].slots[k].value

====
